---- MODULE Spec2Model ----
(***************************************************************************)
(* A model of the opportunity tracker: the demo-link codec                 *)
(* (src/types/database.ts), the filter store (stores/filter-store), the    *)
(* useOpportunities hook (hooks/use-opportunities.ts) and the table        *)
(* view's optimistic inline edit (components/dashboard/table-view).        *)
(*                                                                         *)
(* A JavaScript string is a sequence of one-character strings; an array    *)
(* is a sequence.                                                          *)
(***************************************************************************)
EXTENDS Integers, Sequences, FiniteSets, TLC

VARIABLES
    codecPc,    \* which codec function has been applied to the inputs
    linkIn,     \* a DemoLink {label, url} given to serialize / display
    rawIn,      \* a stored demo-link string given to parse
    linkOut,    \* the DemoLink a parse returned
    rawOut,     \* the string a serialize / display returned
    \* the filter store (zustand, persisted under hic-tracker-filters)
    companyMode,
    selectedCompanyIds,
    opportunityMode,
    selectedOpportunityIds,
    \* the state of the useOpportunities hook
    opportunities,
    companies,
    loading,
    error,
    fetches,    \* the fetchData invocations that are suspended at an await
    \* the record store
    dbOpps,     \* the rows of the opportunities table
    dbCompanies,\* the rows of the companies table
    \* the table view
    edits,      \* the updateField invocations whose persist is outstanding
    lastPersist,\* how the persist request (of an updateField or of a
                \* handleSave) that settled last ended
    \* the rest of the filter store
    sidebarCollapsed,
    columnWidths,
    \* attachments: the blob store, the metadata table and the two modals
    blobs,      \* the paths of the Attachments bucket that hold a blob
    attRows,    \* the rows of the attachments table
    attachments,\* the attachment list each modal renders
    uploading,  \* the uploading flag of the edit modal
    detailLoading, \* the loading flag of the detail modal
    requests,   \* the modal handlers that are suspended at an await
    clock,      \* what the last read of Date.now() returned
    \* the inline text edit of the table view
    editingId,  \* the id of the row whose cell is in edit mode, or Null
    editingField, \* the field of the cell in edit mode, or Null
    tempValue,  \* the text of the input of each row
    \* the column handle that is dragged
    resizingRef,
    \* the create modal of the table page
    isModalOpen,
    formData,   \* the name typed into the form of the mounted modal
    saving,     \* the saving flag of the mounted modal
    saves       \* the handleSave invocations that are suspended at an await

codecVars == <<codecPc, linkIn, rawIn, linkOut, rawOut>>

filterVars ==
    <<companyMode, selectedCompanyIds, opportunityMode, selectedOpportunityIds>>

hookVars == <<opportunities, companies, loading, error, fetches>>

dbVars == <<dbOpps, dbCompanies>>

tableVars == <<edits, lastPersist>>

layoutVars == <<sidebarCollapsed, columnWidths>>

editVars == <<editingId, editingField, tempValue>>

formVars == <<isModalOpen, formData, saving, saves>>

viewVars == <<editVars, resizingRef, formVars>>

modalVars ==
    <<blobs, attRows, attachments, uploading, detailLoading, requests, clock>>

vars ==
    <<codecVars, filterVars, hookVars, dbVars, tableVars, layoutVars, modalVars,
      viewVars>>

----------------------------------------------------------------------------
(* Bounds                                                                  *)

\* longest label, plain url and stored string drawn as codec input
MaxLen == 3
\* longest host name of a web url drawn as codec input
MaxHost == 6
\* most rows of one path that are held at one time
MaxRows == 2
\* widest column a drag of the model sets
MaxWidth == 220
\* most handleSave invocations suspended at one time
MaxSaves == 1
\* most rows of the opportunities table
MaxOpps == 3
\* most fetchData invocations suspended at one time
MaxFetches == 2
\* most updateField invocations whose persist is outstanding at one time
MaxEdits == 2
\* most demo links of an opportunity
MaxLinks == 1
\* most handler invocations of the modals suspended at one time
MaxRequests == 2
\* the latest reading of Date.now() that names an uploaded file
MaxClock == 2

----------------------------------------------------------------------------
(* JavaScript string primitives                                            *)

\* String.prototype.indexOf(c): 0-based index of the first c, -1 if none
RECURSIVE IndexFrom(_, _, _)
IndexFrom(s, c, k) ==
    IF k > Len(s) THEN -1
    ELSE IF s[k] = c THEN k - 1
    ELSE IndexFrom(s, c, k + 1)

IndexOf(s, c) == IndexFrom(s, c, 1)

\* String.prototype.substring(from, to), 0-based, to exclusive
Substring(s, from, to) == SubSeq(s, from + 1, to)

\* String.prototype.trim(): drop leading and trailing white space
RECURSIVE TrimStart(_)
TrimStart(s) ==
    IF s # <<>> /\ Head(s) = " " THEN TrimStart(Tail(s)) ELSE s

RECURSIVE TrimEnd(_)
TrimEnd(s) ==
    IF s # <<>> /\ s[Len(s)] = " " THEN TrimEnd(SubSeq(s, 1, Len(s) - 1)) ELSE s

Trim(s) == TrimEnd(TrimStart(s))

\* s.startsWith(p) at 0-based offset k
MatchesAt(s, p, k) ==
    /\ k + Len(p) <= Len(s)
    /\ \A i \in 1..Len(p) : s[k + i] = p[i]

\* 0-based index of the first occurrence of the substring p, -1 if none
RECURSIVE FindFrom(_, _, _)
FindFrom(s, p, k) ==
    IF k + Len(p) > Len(s) THEN -1
    ELSE IF MatchesAt(s, p, k) THEN k
    ELSE FindFrom(s, p, k + 1)

\* String.prototype.replace(p, r) with a string pattern: the first
\* occurrence of p, wherever it is, is replaced
Replace(s, p, r) ==
    LET k == FindFrom(s, p, 0)
    IN  IF k = -1 THEN s
        ELSE Substring(s, 0, k) \o r \o Substring(s, k + Len(p), Len(s))

----------------------------------------------------------------------------
(* new URL(s), for the strings the codec inputs are drawn from: a string   *)
(* with no scheme has no base to resolve against and throws; an https url  *)
(* has the host between "//" and the next "/" as its hostname, and throws  *)
(* when that host is empty or holds a forbidden host code point.           *)

Https == <<"h", "t", "t", "p", "s", ":", "/", "/">>

Www == <<"w", "w", "w", ".">>

ForbiddenHostChars == {" ", "|", ":"}

NewURL(s) ==
    IF ~MatchesAt(s, Https, 0) THEN [ok |-> FALSE, hostname |-> <<>>]
    ELSE LET rest  == Substring(s, Len(Https), Len(s))
             slash == IndexOf(rest, "/")
             host  == IF slash = -1 THEN rest ELSE Substring(rest, 0, slash)
         IN  IF host = <<>> \/ \E i \in 1..Len(host) : host[i] \in ForbiddenHostChars
             THEN [ok |-> FALSE, hostname |-> <<>>]
             ELSE [ok |-> TRUE, hostname |-> host]

----------------------------------------------------------------------------
(* The demo-link codec                                                     *)

DemoLink(label, url) == [label |-> label, url |-> url]

parseDemoLink_LastPipe(link) ==
    LET pipes == {k \in 1..Len(link) : link[k] = "|"}
        pipeIndex == IF pipes = {} THEN -1
                     ELSE (CHOOSE k \in pipes : \A j \in pipes : j <= k) - 1
    IN  IF pipeIndex > 0 /\ pipeIndex < Len(link) - 1
        THEN DemoLink(Substring(link, 0, pipeIndex),
                      Substring(link, pipeIndex + 1, Len(link)))
        ELSE DemoLink(<<>>, link)

parseDemoLink_AnyPipe(link) ==
    LET pipeIndex == IndexOf(link, "|")
    IN  IF pipeIndex >= 0 /\ pipeIndex < Len(link) - 1
        THEN DemoLink(Substring(link, 0, pipeIndex),
                      Substring(link, pipeIndex + 1, Len(link)))
        ELSE DemoLink(<<>>, link)

parseDemoLink(link) ==
    LET pipeIndex == IndexOf(link, "|")
    IN  IF pipeIndex > 0 /\ pipeIndex < Len(link) - 1
        THEN DemoLink(Substring(link, 0, pipeIndex),
                      Substring(link, pipeIndex + 1, Len(link)))
        ELSE DemoLink(<<>>, link)

serializeDemoLink_Trimmed(link) ==
    IF link.label # <<>> /\ Trim(link.label) # <<>>
    THEN Trim(link.label) \o <<"|">> \o link.url
    ELSE link.url

serializeDemoLink_NoTrim(link) ==
    IF link.label # <<>>
    THEN link.label \o <<"|">> \o link.url
    ELSE link.url

serializeDemoLink(link) ==
    IF link.label # <<>> /\ Trim(link.label) # <<>>
    THEN link.label \o <<"|">> \o link.url
    ELSE link.url

getDemoLinkDisplay_NoTrim(link) ==
    IF link.label # <<>>
    THEN link.label
    ELSE LET url == NewURL(link.url)
         IN  IF url.ok THEN Replace(url.hostname, Www, <<>>) ELSE link.url

getDemoLinkDisplay(link) ==
    IF link.label # <<>> /\ Trim(link.label) # <<>>
    THEN link.label
    ELSE LET url == NewURL(link.url)
         IN  IF url.ok THEN Replace(url.hostname, Www, <<>>) ELSE link.url

----------------------------------------------------------------------------
(* The record store and the values of the application                      *)

OppIds == {"o1", "o2"}

\* company ids; 0 stands for a null company_id
CompanyIds == {1, 2}

Statuses == {"planned", "done"}

\* the field the rows of the table edit through the status select, and the
\* values the select offers
EditableFields == {"status"}

FieldValues(field) == Statuses

NoError == "none"

FetchFailed == "Failed to fetch data"

HyperReach == "Hyper-Reach"

CompanyName(id) == IF id = 1 THEN "Alessa" ELSE IF id = 2 THEN "Cadis" ELSE HyperReach

\* the place of a company name in the order of .order('name')
NameRank(name) == IF name = "Alessa" THEN 1 ELSE IF name = "Cadis" THEN 2 ELSE 3

\* the manual sort order of an opportunity
SortOrder(id) == IF id = "o1" THEN 1 ELSE 2

OppRow(id, company_id, phase, status) ==
    [id |-> id, name |-> "n", company_id |-> company_id,
     company |-> CompanyName(company_id),
     phase |-> phase, status |-> status, sort_order |-> SortOrder(id),
     demo_links |-> <<>>]

Range(seq) == {seq[i] : i \in DOMAIN seq}

\* Array.prototype.includes
Includes(seq, x) == \E i \in DOMAIN seq : seq[i] = x

\* Array.prototype.filter((i) => i !== x)
RECURSIVE Without(_, _)
Without(seq, x) ==
    IF seq = <<>> THEN <<>>
    ELSE IF Head(seq) = x THEN Without(Tail(seq), x)
    ELSE <<Head(seq)>> \o Without(Tail(seq), x)

\* the sequence seq without its i-th element
RemoveAt(seq, i) == SubSeq(seq, 1, i - 1) \o SubSeq(seq, i + 1, Len(seq))

\* select * from companies order by name
CompanyBefore(a, b) ==
    \/ NameRank(a.name) < NameRank(b.name)
    \/ NameRank(a.name) = NameRank(b.name) /\ a.id < b.id

RECURSIVE SelectCompanies(_)
SelectCompanies(rows) ==
    IF rows = {} THEN <<>>
    ELSE LET first == CHOOSE r \in rows : \A q \in rows \ {r} : CompanyBefore(r, q)
         IN  <<first>> \o SelectCompanies(rows \ {first})

\* .order('phase').order('sort_order')
OppBefore(a, b) ==
    \/ a.phase < b.phase
    \/ a.phase = b.phase /\ a.sort_order < b.sort_order

RECURSIVE OrderOpps(_)
OrderOpps(rows) ==
    IF rows = {} THEN <<>>
    ELSE LET first == CHOOSE r \in rows : \A q \in rows \ {r} : OppBefore(r, q)
         IN  <<first>> \o OrderOpps(rows \ {first})

\* update({[field]: value}).eq('id', id)
UpdateOpp(rows, id, field, value) ==
    {IF r.id = id THEN [r EXCEPT ![field] = value] ELSE r : r \in rows}

----------------------------------------------------------------------------
(* useOpportunities: fetchData                                             *)

\* a fetchData invocation: where it is suspended, the filter values its
\* closure holds, and its local finalCompanies
NewFetch(cm, cids, om, oids) ==
    [pc |-> "companies", companyMode |-> cm, selectedCompanyIds |-> cids,
     opportunityMode |-> om, selectedOpportunityIds |-> oids,
     finalCompanies |-> <<>>]

ApplyCompanyFilter_AnyMode(f) == Len(f.selectedCompanyIds) > 0

\* whether fetchData narrows the query by company_id
ApplyCompanyFilter(f) ==
    f.companyMode = "select" /\ Len(f.selectedCompanyIds) > 0

\* whether fetchData narrows the query by id
ApplyOpportunityFilter(f) ==
    f.opportunityMode = "select" /\ Len(f.selectedOpportunityIds) > 0

\* the rows the opportunities query of fetch f selects from the table
OpportunitiesQuery(rows, f) ==
    OrderOpps({r \in rows :
        /\ ApplyCompanyFilter(f) => Includes(f.selectedCompanyIds, r.company_id)
        /\ ApplyOpportunityFilter(f) => Includes(f.selectedOpportunityIds, r.id)})

\* the table view is rendered only when the page shows neither the spinner
\* nor the error banner
TableMounted == ~loading /\ error = NoError

\* the table view is unmounted: its optimistic state is gone
Unmounted(es) == [i \in DOMAIN es |-> [es[i] EXCEPT !.optimistic = FALSE]]

\* null, where an id or a field name is expected
Null == "null"

\* resizingRef.current when no column handle is dragged: null
NoRef == [column |-> Null, startX |-> 0, startWidth |-> 0]

\* the inputs of the rows as mounted: useState('')
NoTemp == [id \in OppIds |-> ""]

\* the page renders the spinner in place of the table view and the modal:
\* the state of both is gone, and a handleSave that is suspended belongs
\* to a modal that is no longer mounted
ViewUnmounted ==
    /\ editingId' = Null
    /\ editingField' = Null
    /\ tempValue' = NoTemp
    /\ formData' = ""
    /\ saving' = FALSE
    /\ saves' = [i \in DOMAIN saves |-> [saves[i] EXCEPT !.mounted = FALSE]]
    /\ UNCHANGED <<resizingRef, isModalOpen>>

FetchData_KeepsError(cm, cids, om, oids) ==
    /\ Len(fetches) < MaxFetches
    /\ loading' = TRUE
    /\ error' = error
    /\ fetches' = Append(fetches, NewFetch(cm, cids, om, oids))

\* fetchData() up to its first await, on the closure of the given filter
FetchData(cm, cids, om, oids) ==
    /\ Len(fetches) < MaxFetches
    /\ loading' = TRUE
    /\ error' = NoError
    /\ fetches' = Append(fetches, NewFetch(cm, cids, om, oids))

\* the companies select of fetch i answers
CompaniesResponse(i, outcome) ==
    /\ fetches[i].pc = "companies"
    /\ IF outcome = "error"
       THEN /\ error' = FetchFailed
            /\ loading' = FALSE
            /\ fetches' = RemoveAt(fetches, i)
            /\ UNCHANGED companies
       ELSE LET finalCompanies == SelectCompanies(dbCompanies)
            IN  IF \E k \in DOMAIN finalCompanies : finalCompanies[k].name = HyperReach
                THEN /\ companies' = finalCompanies
                     /\ fetches' = [fetches EXCEPT ![i].pc = "opportunities"]
                     /\ UNCHANGED <<loading, error>>
                ELSE /\ fetches' = [fetches EXCEPT ![i].pc = "insert",
                                                   ![i].finalCompanies = finalCompanies]
                     /\ UNCHANGED <<companies, loading, error>>
    /\ UNCHANGED <<opportunities, dbVars, filterVars, codecVars, viewVars, tableVars,
                   layoutVars, modalVars>>

\* the insert of the Hyper-Reach company of fetch i answers
InsertResponse(i, outcome) ==
    /\ fetches[i].pc = "insert"
    /\ IF outcome = "ok"
       THEN dbCompanies' = dbCompanies \cup
                {[id |-> Cardinality(dbCompanies) + 1, name |-> HyperReach]}
       ELSE UNCHANGED dbCompanies
    /\ fetches' = [fetches EXCEPT ![i].pc = "refresh"]
    /\ UNCHANGED <<opportunities, companies, loading, error, dbOpps,
                   filterVars, codecVars, viewVars, tableVars,
                   layoutVars, modalVars>>

\* the second companies select of fetch i answers
RefreshResponse(i, outcome) ==
    /\ fetches[i].pc = "refresh"
    /\ companies' = IF outcome = "ok" THEN SelectCompanies(dbCompanies)
                    ELSE fetches[i].finalCompanies
    /\ fetches' = [fetches EXCEPT ![i].pc = "opportunities",
                                  ![i].finalCompanies = <<>>]
    /\ UNCHANGED <<opportunities, loading, error, dbVars, filterVars, codecVars, viewVars,
                   tableVars,
                   layoutVars, modalVars>>

OpportunitiesResponse_ClearsOnError(i, outcome) ==
    /\ fetches[i].pc = "opportunities"
    /\ IF outcome = "error"
       THEN /\ error' = FetchFailed
            /\ opportunities' = <<>>
       ELSE /\ opportunities' = OpportunitiesQuery(dbOpps, fetches[i])
            /\ UNCHANGED error
    /\ loading' = FALSE
    /\ fetches' = RemoveAt(fetches, i)
    /\ UNCHANGED <<companies, dbVars, filterVars, codecVars, viewVars, tableVars,
                   layoutVars, modalVars>>

OpportunitiesResponse_NewestOnly(i, outcome) ==
    /\ fetches[i].pc = "opportunities"
    /\ IF outcome = "error"
       THEN /\ error' = FetchFailed
            /\ UNCHANGED opportunities
       ELSE /\ opportunities' = IF i = Len(fetches)
                                THEN OpportunitiesQuery(dbOpps, fetches[i])
                                ELSE opportunities
            /\ UNCHANGED error
    /\ loading' = FALSE
    /\ fetches' = RemoveAt(fetches, i)
    /\ UNCHANGED <<companies, dbVars, filterVars, codecVars, viewVars, tableVars,
                   layoutVars, modalVars>>

\* the opportunities query of fetch i answers
OpportunitiesResponse(i, outcome) ==
    /\ fetches[i].pc = "opportunities"
    /\ IF outcome = "error"
       THEN /\ error' = FetchFailed
            /\ UNCHANGED opportunities
       ELSE /\ opportunities' = OpportunitiesQuery(dbOpps, fetches[i])
            /\ UNCHANGED error
    /\ loading' = FALSE
    /\ fetches' = RemoveAt(fetches, i)
    /\ UNCHANGED <<companies, dbVars, filterVars, codecVars, viewVars, tableVars,
                   layoutVars, modalVars>>

\* fetchData called on the current closure: the Refresh and Retry buttons
\* of the page (refetch), and the callback of the postgres_changes
\* subscription
Refetch ==
    /\ FetchData(companyMode, selectedCompanyIds, opportunityMode,
                 selectedOpportunityIds)
    /\ edits' = Unmounted(edits)
    /\ ViewUnmounted
    /\ UNCHANGED <<opportunities, companies, dbVars, filterVars, codecVars,
                   lastPersist, layoutVars, modalVars>>

----------------------------------------------------------------------------
(* The filter store. A change of a value fetchData depends on gives the    *)
(* hook a new fetchData, and the hook's effect calls it.                   *)

FilterChanged(cm, cids, om, oids) ==
    /\ companyMode' = cm
    /\ selectedCompanyIds' = cids
    /\ opportunityMode' = om
    /\ selectedOpportunityIds' = oids
    /\ FetchData(cm, cids, om, oids)
    /\ edits' = Unmounted(edits)
    /\ ViewUnmounted
    /\ UNCHANGED <<opportunities, companies, dbVars, codecVars, lastPersist,
                   layoutVars, modalVars>>

Modes == {"all", "select"}

\* the duplicate-free arrays of the elements of S
Selections(S) ==
    {s \in UNION {[1..k -> S] : k \in 0..Cardinality(S)} :
        \A i, j \in DOMAIN s : i # j => s[i] # s[j]}

setCompanyMode_ClearsAll(mode) ==
    /\ mode # companyMode
    /\ FilterChanged(mode, <<>>, "all", <<>>)

\* setCompanyMode(mode); a mode equal to the current one changes no
\* dependency of fetchData
setCompanyMode(mode) ==
    /\ mode # companyMode
    /\ FilterChanged(mode, selectedCompanyIds, opportunityMode,
                     selectedOpportunityIds)

setOpportunityMode(mode) ==
    /\ mode # opportunityMode
    /\ FilterChanged(companyMode, selectedCompanyIds, mode,
                     selectedOpportunityIds)

Toggle_AlwaysAppends(ids, id) == Append(ids, id)

\* ids.includes(id) ? ids.filter((i) => i !== id) : [...ids, id]
Toggle(ids, id) ==
    IF Includes(ids, id) THEN Without(ids, id) ELSE Append(ids, id)

toggleCompany(id) ==
    FilterChanged(companyMode, Toggle(selectedCompanyIds, id),
                  opportunityMode, selectedOpportunityIds)

toggleOpportunity(id) ==
    FilterChanged(companyMode, selectedCompanyIds, opportunityMode,
                  Toggle(selectedOpportunityIds, id))

\* setSelectedCompanies(ids): the All and None buttons of the sidebar
setSelectedCompanies(ids) ==
    FilterChanged(companyMode, ids, opportunityMode, selectedOpportunityIds)

setSelectedOpportunities(ids) ==
    FilterChanged(companyMode, selectedCompanyIds, opportunityMode, ids)

clearFilters ==
    FilterChanged("all", <<>>, "all", <<>>)

\* the column of the table whose width the model follows
Columns == {"name"}

DEFAULT_COLUMN_WIDTHS == [column \in Columns |-> 120]

\* the widths a caller hands to setColumnWidth
Widths == {10, 60}

\* Math.max(a, b)
Max(a, b) == IF a >= b THEN a ELSE b

toggleSidebar ==
    /\ sidebarCollapsed' = ~sidebarCollapsed
    /\ UNCHANGED <<columnWidths, filterVars, hookVars, dbVars, tableVars,
                   codecVars, viewVars, modalVars>>

setSidebarCollapsed(collapsed) ==
    /\ sidebarCollapsed' = collapsed
    /\ UNCHANGED <<columnWidths, filterVars, hookVars, dbVars, tableVars,
                   codecVars, viewVars, modalVars>>

setColumnWidth(column, width) ==
    /\ columnWidths' = [columnWidths EXCEPT ![column] = Max(20, width)]
    /\ UNCHANGED <<sidebarCollapsed, filterVars, hookVars, dbVars, tableVars,
                   codecVars, viewVars, modalVars>>

resetColumnWidths ==
    /\ columnWidths' = DEFAULT_COLUMN_WIDTHS
    /\ UNCHANGED <<sidebarCollapsed, filterVars, hookVars, dbVars, tableVars,
                   codecVars, viewVars, modalVars>>

----------------------------------------------------------------------------
(* The table view: the optimistic list and updateField                     *)

reducer_AllRows(state, update) ==
    [k \in DOMAIN state |-> [state[k] EXCEPT ![update.field] = update.value]]

\* the reducer given to useOptimistic
reducer(state, update) ==
    [k \in DOMAIN state |->
        IF state[k].id = update.id
        THEN [state[k] EXCEPT ![update.field] = update.value]
        ELSE state[k]]

\* the optimistic updates that are still pending, oldest first
RECURSIVE Pending(_)
Pending(es) ==
    IF es = <<>> THEN <<>>
    ELSE (IF Head(es).optimistic THEN <<Head(es)>> ELSE <<>>) \o Pending(Tail(es))

RECURSIVE Reduce_OldestLast(_, _)
Reduce_OldestLast(state, updates) ==
    IF updates = <<>> THEN state
    ELSE reducer(Reduce_OldestLast(state, Tail(updates)), Head(updates))

\* the pending updates applied to the list in the order of their dispatch
RECURSIVE Reduce(_, _)
Reduce(state, updates) ==
    IF updates = <<>> THEN state
    ELSE Reduce(reducer(state, Head(updates)), Tail(updates))

\* useOptimistic(opportunities, reducer): the list the table renders
optimisticOpportunities == Reduce(opportunities, Pending(edits))

\* updateField(id, field, value) up to its await: the optimistic update is
\* dispatched and the persist request is issued
updateField(id, field, value) ==
    /\ TableMounted
    /\ \E k \in DOMAIN optimisticOpportunities : optimisticOpportunities[k].id = id
    /\ Len(edits) < MaxEdits
    /\ edits' = Append(edits, [id |-> id, field |-> field, value |-> value,
                               optimistic |-> TRUE])
    /\ UNCHANGED <<lastPersist, hookVars, dbVars, filterVars, codecVars, viewVars,
                   layoutVars, modalVars>>

\* the company select of a row, which offers the companies of the page:
\* updateField(id, 'company_id', value) and, when the companies hold the
\* value, updateField(id, 'company', its name), each up to its await
selectCompany(id, value) ==
    LET selectedCompany == {companies[k] : k \in {j \in DOMAIN companies :
                                                     companies[j].id = value}}
        named == IF selectedCompany = {} THEN <<>>
                 ELSE <<[id |-> id, field |-> "company",
                         value |-> (CHOOSE c \in selectedCompany : TRUE).name,
                         optimistic |-> TRUE]>>
    IN  /\ TableMounted
        /\ \E k \in DOMAIN optimisticOpportunities : optimisticOpportunities[k].id = id
        /\ \E k \in DOMAIN companies : companies[k].id = value
        /\ Len(edits) + 1 < MaxEdits
        /\ edits' = Append(edits, [id |-> id, field |-> "company_id", value |-> value,
                                   optimistic |-> TRUE]) \o named
        /\ UNCHANGED <<lastPersist, hookVars, dbVars, filterVars, codecVars, viewVars,
                       layoutVars, modalVars>>

\* the demo links a user types into the prompt of the popover
Links == {"u"}

\* the Add button of the demo links popover of a row: the prompt's answer
\* is appended to the links the row renders
addDemoLink(id, newLink) ==
    /\ \E k \in DOMAIN optimisticOpportunities :
           /\ optimisticOpportunities[k].id = id
           /\ Len(optimisticOpportunities[k].demo_links) < MaxLinks
           /\ updateField(id, "demo_links",
                          Append(optimisticOpportunities[k].demo_links, newLink))

\* the remove button of the i-th demo link of a row
removeDemoLink(id, i) ==
    /\ \E k \in DOMAIN optimisticOpportunities :
           /\ optimisticOpportunities[k].id = id
           /\ i \in DOMAIN optimisticOpportunities[k].demo_links
           /\ updateField(id, "demo_links",
                          RemoveAt(optimisticOpportunities[k].demo_links, i))

\* the transitions that dispatched the pending optimistic updates have
\* ended (each wraps a synchronous callback): useOptimistic returns to the
\* opportunities it was given
TransitionEnd ==
    /\ Pending(edits) # <<>>
    /\ edits' = Unmounted(edits)
    /\ UNCHANGED <<lastPersist, hookVars, dbVars, filterVars, codecVars, viewVars,
                   layoutVars, modalVars>>

PersistSettles_ReportsFailure(i, outcome) ==
    /\ i \in DOMAIN edits
    /\ lastPersist' = outcome
    /\ dbOpps' = IF outcome = "ok"
                 THEN UpdateOpp(dbOpps, edits[i].id, edits[i].field, edits[i].value)
                 ELSE dbOpps
    /\ IF outcome = "ok"
       THEN /\ FetchData(companyMode, selectedCompanyIds, opportunityMode,
                         selectedOpportunityIds)
            /\ edits' = Unmounted(RemoveAt(edits, i))
       ELSE /\ error' = "Failed to save"
            /\ edits' = Unmounted(RemoveAt(edits, i))
            /\ UNCHANGED <<loading, fetches>>
    /\ ViewUnmounted
    /\ UNCHANGED <<opportunities, companies, dbCompanies, filterVars, codecVars,
                   layoutVars, modalVars>>

PersistSettles_RefreshOnSuccess(i, outcome) ==
    /\ i \in DOMAIN edits
    /\ lastPersist' = outcome
    /\ dbOpps' = IF outcome = "ok"
                 THEN UpdateOpp(dbOpps, edits[i].id, edits[i].field, edits[i].value)
                 ELSE dbOpps
    /\ IF outcome = "ok"
       THEN /\ FetchData(companyMode, selectedCompanyIds, opportunityMode,
                         selectedOpportunityIds)
            /\ edits' = Unmounted(RemoveAt(edits, i))
            /\ ViewUnmounted
       ELSE /\ edits' = RemoveAt(edits, i)
            /\ editingId' = Null
            /\ editingField' = Null
            /\ UNCHANGED <<loading, error, fetches, tempValue, resizingRef, formVars>>
    /\ UNCHANGED <<opportunities, companies, dbCompanies, filterVars, codecVars,
                   layoutVars, modalVars>>

PersistSettles_KeepsOtherEdit(i, outcome) ==
    /\ i \in DOMAIN edits
    /\ lastPersist' = outcome
    /\ dbOpps' = IF outcome = "ok"
                 THEN UpdateOpp(dbOpps, edits[i].id, edits[i].field, edits[i].value)
                 ELSE dbOpps
    /\ FetchData(companyMode, selectedCompanyIds, opportunityMode,
                 selectedOpportunityIds)
    /\ edits' = Unmounted(RemoveAt(edits, i))
    /\ IF editingId = edits[i].id
       THEN ViewUnmounted
       ELSE /\ formData' = ""
            /\ saving' = FALSE
            /\ saves' = [k \in DOMAIN saves |-> [saves[k] EXCEPT !.mounted = FALSE]]
            /\ UNCHANGED <<editVars, resizingRef, isModalOpen>>
    /\ UNCHANGED <<opportunities, companies, dbCompanies, filterVars, codecVars,
                   layoutVars, modalVars>>

\* the persist request of the i-th outstanding updateField settles, and
\* updateField runs to its end: onRefresh(), setEditingId(null),
\* setEditingField(null)
PersistSettles(i, outcome) ==
    /\ i \in DOMAIN edits
    /\ lastPersist' = outcome
    /\ dbOpps' = IF outcome = "ok"
                 THEN UpdateOpp(dbOpps, edits[i].id, edits[i].field, edits[i].value)
                 ELSE dbOpps
    /\ FetchData(companyMode, selectedCompanyIds, opportunityMode,
                 selectedOpportunityIds)
    /\ edits' = Unmounted(RemoveAt(edits, i))
    /\ ViewUnmounted
    /\ UNCHANGED <<opportunities, companies, dbCompanies, filterVars, codecVars,
                   layoutVars, modalVars>>

----------------------------------------------------------------------------
(* The inline text edit of a row: a click on the cell opens an input,      *)
(* Enter and the check button save, Escape and the X button cancel         *)

\* the text cell of a row the model follows
TextFields == {"name"}

\* what a user types into the input
Texts == {"m"}

\* the input of the cell of the row id is rendered
InputRendered(id) ==
    TableMounted /\ editingId = id /\ editingField \in TextFields

\* startEditing(field, currentValue) of the row id: a click on the cell's
\* text
startEditing(id, field, currentValue) ==
    /\ TableMounted
    /\ \E k \in DOMAIN optimisticOpportunities :
           /\ optimisticOpportunities[k].id = id
           /\ optimisticOpportunities[k][field] = currentValue
    /\ ~InputRendered(id)
    /\ editingId' = id
    /\ editingField' = field
    /\ tempValue' = [tempValue EXCEPT ![id] = currentValue]
    /\ UNCHANGED <<resizingRef, formVars, filterVars, hookVars, dbVars, tableVars,
                   codecVars, layoutVars, modalVars>>

\* the onChange of the input of the row id: setTempValue(e.target.value)
setTempValue(id, text) ==
    /\ InputRendered(id)
    /\ text # tempValue[id]
    /\ tempValue' = [tempValue EXCEPT ![id] = text]
    /\ UNCHANGED <<editingId, editingField, resizingRef, formVars, filterVars,
                   hookVars, dbVars, tableVars, codecVars, layoutVars, modalVars>>

cancelEditing_KeepsText(id) ==
    /\ InputRendered(id)
    /\ editingId' = Null
    /\ editingField' = Null
    /\ UNCHANGED <<tempValue, resizingRef, formVars, filterVars, hookVars, dbVars,
                   tableVars, codecVars, layoutVars, modalVars>>

\* cancelEditing() of the row id: Escape in the input, or the X button
cancelEditing(id) ==
    /\ InputRendered(id)
    /\ editingId' = Null
    /\ editingField' = Null
    /\ tempValue' = [tempValue EXCEPT ![id] = ""]
    /\ UNCHANGED <<resizingRef, formVars, filterVars, hookVars, dbVars, tableVars,
                   codecVars, layoutVars, modalVars>>

\* saveEditing() of the row id: Enter in the input, or the check button.
\* The cell stays in edit mode until updateField has run to its end.
saveEditing(id) ==
    /\ InputRendered(id)
    /\ editingField # Null
    /\ updateField(id, editingField, tempValue[id])

----------------------------------------------------------------------------
(* The create modal of the table page: OpportunityModal with no            *)
(* opportunity, onSave = refetch and onClose = handleCloseModal             *)

\* the modal is rendered: the page renders it with the table
ModalRendered == TableMounted /\ isModalOpen

\* handleCreateNew of the page: the New button
handleCreateNew ==
    /\ TableMounted
    /\ ~isModalOpen
    /\ isModalOpen' = TRUE
    /\ UNCHANGED <<formData, saving, saves, editVars, resizingRef, filterVars,
                   hookVars, dbVars, tableVars, codecVars, layoutVars, modalVars>>

\* handleCloseModal of the page: the Cancel button of the modal, and the
\* dialog's onOpenChange
handleCloseModal ==
    /\ ModalRendered
    /\ isModalOpen' = FALSE
    /\ UNCHANGED <<formData, saving, saves, editVars, resizingRef, filterVars,
                   hookVars, dbVars, tableVars, codecVars, layoutVars, modalVars>>

\* the onChange of the name input of the form
setFormData(name) ==
    /\ ModalRendered
    /\ name # formData
    /\ formData' = name
    /\ UNCHANGED <<isModalOpen, saving, saves, editVars, resizingRef, filterVars,
                   hookVars, dbVars, tableVars, codecVars, layoutVars, modalVars>>

\* handleSave() up to its await: the Create button, which is disabled
\* while saving is set and while the form has no name or no company; the
\* form's company is the first of the page's companies
handleSave ==
    /\ ModalRendered
    /\ ~saving
    /\ formData # ""
    /\ companies # <<>>
    /\ Len(saves) < MaxSaves
    /\ Cardinality(dbOpps) + Len(saves) < MaxOpps
    /\ saving' = TRUE
    /\ saves' = Append(saves, [name |-> formData, company_id |-> companies[1].id,
                               mounted |-> TRUE])
    /\ UNCHANGED <<isModalOpen, formData, editVars, resizingRef, filterVars,
                   hookVars, dbVars, tableVars, codecVars, layoutVars, modalVars>>

\* the row handleSave inserts: crypto.randomUUID() is an id no row has
NewOpportunity(save) ==
    LET n == Cardinality(dbOpps) + 1
    IN  [OppRow("o" \o ToString(n), save.company_id, 0, "planned")
            EXCEPT !.name = save.name, !.sort_order = n]

SaveResponse_StaysOpenOnError(i, outcome) ==
    /\ i \in DOMAIN saves
    /\ lastPersist' = outcome
    /\ IF outcome = "ok"
       THEN /\ dbOpps' = dbOpps \cup {NewOpportunity(saves[i])}
            /\ FetchData(companyMode, selectedCompanyIds, opportunityMode,
                         selectedOpportunityIds)
            /\ isModalOpen' = FALSE
            /\ formData' = ""
            /\ edits' = Unmounted(edits)
            /\ editingId' = Null
            /\ editingField' = Null
            /\ tempValue' = NoTemp
            /\ saves' = [k \in DOMAIN RemoveAt(saves, i) |->
                            [RemoveAt(saves, i)[k] EXCEPT !.mounted = FALSE]]
       ELSE /\ saves' = RemoveAt(saves, i)
            /\ UNCHANGED <<dbOpps, loading, error, fetches, isModalOpen, formData,
                           edits, editVars>>
    /\ saving' = FALSE
    /\ UNCHANGED <<opportunities, companies, dbCompanies, resizingRef, filterVars,
                   codecVars, layoutVars, modalVars>>

\* the insert of the i-th outstanding handleSave answers, and handleSave
\* runs to its end without reading the result: onSave(), which is the
\* page's refetch, onClose(), and setSaving(false) in the finally
SaveResponse(i, outcome) ==
    /\ i \in DOMAIN saves
    /\ lastPersist' = outcome
    /\ dbOpps' = IF outcome = "ok"
                 THEN dbOpps \cup {NewOpportunity(saves[i])}
                 ELSE dbOpps
    /\ FetchData(companyMode, selectedCompanyIds, opportunityMode,
                 selectedOpportunityIds)
    /\ isModalOpen' = FALSE
    /\ saving' = FALSE
    /\ formData' = ""
    /\ edits' = Unmounted(edits)
    /\ editingId' = Null
    /\ editingField' = Null
    /\ tempValue' = NoTemp
    /\ saves' = [k \in DOMAIN RemoveAt(saves, i) |->
                    [RemoveAt(saves, i)[k] EXCEPT !.mounted = FALSE]]
    /\ UNCHANGED <<opportunities, companies, dbCompanies, resizingRef, filterVars,
                   codecVars, layoutVars, modalVars>>

----------------------------------------------------------------------------
(* Attachments: the edit modal (OpportunityModal) and the detail modal     *)
(* (OpportunityDetailModal). attachments holds the list of each mounted     *)
(* modal. A blob is named by its path, which is Date.now() under the       *)
(* opportunity's folder, followed by the extension of the file; the        *)
(* uploads of the model are of files of one extension.                     *)

Modals == {"edit", "detail"}

\* a row of the attachments table; the store gives each row an id of its
\* own, which the model writes as the time in the row's path and a serial
\* number among the rows of that path
Attachment(id, file_path) == [id |-> id, file_path |-> file_path]

\* no attachment
NoId == <<0, 0>>

\* the row of id a was not uploaded after the row of id b
NotAfter(a, b) == a[1] < b[1] \/ (a[1] = b[1] /\ a[2] <= b[2])

\* .order('uploaded_at', { ascending: false })
RECURSIVE OrderAttachments(_)
OrderAttachments(rows) ==
    IF rows = {} THEN <<>>
    ELSE LET first == CHOOSE r \in rows : \A q \in rows : NotAfter(q.id, r.id)
         IN  <<first>> \o OrderAttachments(rows \ {first})

\* attachments.filter(a => a.id !== id)
RECURSIVE WithoutId(_, _)
WithoutId(list, id) ==
    IF list = <<>> THEN <<>>
    ELSE IF Head(list).id = id THEN WithoutId(Tail(list), id)
    ELSE <<Head(list)>> \o WithoutId(Tail(list), id)

\* a handler invocation suspended at an await: what it is, which await it
\* is at, and the values its closure holds
Request(kind, modal, pc, file_path, id, closure) ==
    [kind |-> kind, modal |-> modal, pc |-> pc, file_path |-> file_path,
     id |-> id, closure |-> closure]

\* fetchAttachments() of a modal up to its await; id is the attachment
\* whose deletion called it, NoId when an upload did
FetchAttachments(modal, id) == Request("fetch", modal, "select", 0, id, <<>>)

\* the attachment list a modal renders: the detail modal shows a loading
\* line in place of the list while its loading flag is set
RenderedAttachments(modal) ==
    IF modal = "detail" /\ detailLoading THEN <<>> ELSE attachments[modal]

\* the ids that a row, a rendered list or a suspended handler holds
HeldIds ==
    {r.id : r \in attRows}
        \cup UNION {{attachments[m][k].id : k \in DOMAIN attachments[m]} :
                       m \in DOMAIN attachments}
        \cup {requests[i].id : i \in DOMAIN requests}
        \cup UNION {{requests[i].closure[k].id : k \in DOMAIN requests[i].closure} :
                       i \in DOMAIN requests}

\* the serial number of the next row of a path: the ids of the store are
\* fresh, so it is one that nothing holds
NextSerial(file_path) ==
    CHOOSE n \in 0..MaxRows :
        /\ <<file_path, n>> \notin HeldIds
        /\ \A q \in 0..(n - 1) : <<file_path, q>> \in HeldIds

\* the id the store gives the next row of a path
NextId(file_path) == <<file_path, NextSerial(file_path)>>

\* `${opportunity.id}/${Date.now()}.${fileExt}` for the opportunity of the
\* modal and the extension of the model at the time now
filePath(now) == now

\* handleFileUpload(file) of the edit modal up to its first await, now
\* being what Date.now() returns: the wall clock in milliseconds, which is
\* the value of the read before or a later one. The upload control is
\* disabled while uploading is set, so an upload starts after the one
\* before it has ended.
handleFileUpload(now) ==
    /\ "edit" \in DOMAIN attachments
    /\ ~uploading
    /\ now >= clock
    /\ now <= MaxClock
    /\ NextSerial(filePath(now)) < MaxRows
    /\ Len(requests) < MaxRequests
    /\ uploading' = TRUE
    /\ requests' = Append(requests,
           Request("upload", "edit", "blob", filePath(now), NoId, <<>>))
    /\ clock' = now
    /\ UNCHANGED <<blobs, attRows, attachments, detailLoading, filterVars,
                   hookVars, dbVars, tableVars, codecVars, viewVars, layoutVars>>

BlobWriteResponse_IgnoresError(i, outcome) ==
    /\ requests[i].kind = "upload" /\ requests[i].pc = "blob"
    /\ outcome = "ok" => requests[i].file_path \notin blobs
    /\ blobs' = IF outcome = "ok" THEN blobs \cup {requests[i].file_path} ELSE blobs
    /\ requests' = [requests EXCEPT ![i].pc = "metadata"]
    /\ UNCHANGED <<attRows, attachments, uploading, detailLoading, clock,
                   filterVars, hookVars, dbVars, tableVars, codecVars, viewVars,
                   layoutVars>>

\* storage.upload(filePath, file) of upload i answers; the call asks for
\* no upsert, so the bucket refuses a path that holds a blob. On an error
\* the handler alerts, throws and ends in its finally.
BlobWriteResponse(i, outcome) ==
    /\ requests[i].kind = "upload" /\ requests[i].pc = "blob"
    /\ outcome = "ok" => requests[i].file_path \notin blobs
    /\ IF outcome = "ok"
       THEN /\ blobs' = blobs \cup {requests[i].file_path}
            /\ requests' = [requests EXCEPT ![i].pc = "metadata"]
            /\ UNCHANGED uploading
       ELSE /\ uploading' = FALSE
            /\ requests' = RemoveAt(requests, i)
            /\ UNCHANGED blobs
    /\ UNCHANGED <<attRows, attachments, detailLoading, clock, filterVars,
                   hookVars, dbVars, tableVars, codecVars, viewVars, layoutVars>>

MetadataInsertResponse_Compensates(i, outcome) ==
    /\ requests[i].kind = "upload" /\ requests[i].pc = "metadata"
    /\ uploading' = FALSE
    /\ IF outcome = "ok"
       THEN /\ attRows' = attRows \cup
                    {Attachment(NextId(requests[i].file_path),
                                requests[i].file_path)}
            /\ requests' = [requests EXCEPT ![i] = FetchAttachments("edit", NoId)]
            /\ UNCHANGED blobs
       ELSE /\ requests' = RemoveAt(requests, i)
            /\ blobs' = blobs \ {requests[i].file_path}
            /\ UNCHANGED attRows
    /\ UNCHANGED <<attachments, detailLoading, clock, filterVars, hookVars,
                   dbVars, tableVars, codecVars, viewVars, layoutVars>>

\* the insert of the metadata row of upload i answers: on success
\* fetchAttachments is called (and not awaited), on an error the handler
\* alerts and throws; either way it ends in its finally
MetadataInsertResponse(i, outcome) ==
    /\ requests[i].kind = "upload" /\ requests[i].pc = "metadata"
    /\ uploading' = FALSE
    /\ IF outcome = "ok"
       THEN /\ attRows' = attRows \cup
                    {Attachment(NextId(requests[i].file_path),
                                requests[i].file_path)}
            /\ requests' = [requests EXCEPT ![i] = FetchAttachments("edit", NoId)]
       ELSE /\ requests' = RemoveAt(requests, i)
            /\ UNCHANGED attRows
    /\ UNCHANGED <<blobs, attachments, detailLoading, clock, filterVars,
                   hookVars, dbVars, tableVars, codecVars, viewVars, layoutVars>>

\* handleDeleteAttachment of a modal, on the k-th attachment it renders, up
\* to its first await
handleDeleteAttachment(modal, k) ==
    /\ modal \in DOMAIN attachments
    /\ k \in DOMAIN RenderedAttachments(modal)
    /\ Len(requests) < MaxRequests
    /\ requests' = Append(requests,
           Request("delete", modal, "blob", attachments[modal][k].file_path,
                   attachments[modal][k].id, attachments[modal]))
    /\ UNCHANGED <<blobs, attRows, attachments, uploading, detailLoading,
                   clock, filterVars, hookVars, dbVars, tableVars, codecVars, viewVars,
                   layoutVars>>

BlobRemoveResponse_StopsOnError(i, outcome) ==
    /\ requests[i].kind = "delete" /\ requests[i].pc = "blob"
    /\ blobs' = IF outcome = "ok" THEN blobs \ {requests[i].file_path} ELSE blobs
    /\ requests' = IF outcome = "ok"
                   THEN [requests EXCEPT ![i].pc = "metadata"]
                   ELSE RemoveAt(requests, i)
    /\ UNCHANGED <<attRows, attachments, uploading, detailLoading, clock,
                   filterVars, hookVars, dbVars, tableVars, codecVars, viewVars,
                   layoutVars>>

\* storage.remove([file_path]) of delete i answers; the handler does not
\* look at the result
BlobRemoveResponse(i, outcome) ==
    /\ requests[i].kind = "delete" /\ requests[i].pc = "blob"
    /\ blobs' = IF outcome = "ok" THEN blobs \ {requests[i].file_path} ELSE blobs
    /\ requests' = [requests EXCEPT ![i].pc = "metadata"]
    /\ UNCHANGED <<attRows, attachments, uploading, detailLoading, clock,
                   filterVars, hookVars, dbVars, tableVars, codecVars, viewVars,
                   layoutVars>>

MetadataDeleteResponse_KeepsList(i, outcome) ==
    /\ requests[i].kind = "delete" /\ requests[i].pc = "metadata"
    /\ attRows' = IF outcome = "ok"
                  THEN {r \in attRows : r.id # requests[i].id}
                  ELSE attRows
    /\ IF requests[i].modal = "edit"
       THEN /\ attachments' = [attachments EXCEPT
                   !.edit = IF outcome = "ok"
                            THEN WithoutId(requests[i].closure, requests[i].id)
                            ELSE requests[i].closure]
            /\ requests' = RemoveAt(requests, i)
            /\ UNCHANGED detailLoading
       ELSE /\ detailLoading' = TRUE
            /\ requests' = [requests EXCEPT
                   ![i] = FetchAttachments("detail", requests[i].id)]
            /\ UNCHANGED attachments
    /\ UNCHANGED <<blobs, uploading, clock, filterVars, hookVars, dbVars,
                   tableVars, codecVars, viewVars, layoutVars>>

\* the deletion of the metadata row of delete i answers. The edit modal
\* drops the attachment from the list its closure holds; the detail modal
\* calls fetchAttachments (not awaited), and onRefresh, an optional
\* property that its parent here leaves out.
MetadataDeleteResponse(i, outcome) ==
    /\ requests[i].kind = "delete" /\ requests[i].pc = "metadata"
    /\ attRows' = IF outcome = "ok"
                  THEN {r \in attRows : r.id # requests[i].id}
                  ELSE attRows
    /\ IF requests[i].modal = "edit"
       THEN /\ attachments' = [attachments EXCEPT
                   !.edit = WithoutId(requests[i].closure, requests[i].id)]
            /\ requests' = RemoveAt(requests, i)
            /\ UNCHANGED detailLoading
       ELSE /\ detailLoading' = TRUE
            /\ requests' = [requests EXCEPT
                   ![i] = FetchAttachments("detail", requests[i].id)]
            /\ UNCHANGED attachments
    /\ UNCHANGED <<blobs, uploading, clock, filterVars, hookVars, dbVars,
                   tableVars, codecVars, viewVars, layoutVars>>

\* the select of fetchAttachments i answers: setAttachments(data || [])
AttachmentsResponse(i, outcome) ==
    /\ requests[i].kind = "fetch"
    /\ attachments' = [attachments EXCEPT ![requests[i].modal] =
           IF outcome = "ok" THEN OrderAttachments(attRows) ELSE <<>>]
    /\ detailLoading' = IF requests[i].modal = "detail" THEN FALSE ELSE detailLoading
    /\ requests' = RemoveAt(requests, i)
    /\ UNCHANGED <<blobs, attRows, uploading, clock, filterVars, hookVars,
                   dbVars, tableVars, codecVars, viewVars, layoutVars>>

----------------------------------------------------------------------------
(* The column handles of the table view: a drag sets the column's width    *)

\* the clientX of the mouse events on a column handle
Xs == {0, 100}

\* columnWidths[column] || DEFAULT_COLUMN_WIDTHS[column] || 100
WidthOf(column) ==
    IF columnWidths[column] # 0 THEN columnWidths[column]
    ELSE IF DEFAULT_COLUMN_WIDTHS[column] # 0 THEN DEFAULT_COLUMN_WIDTHS[column]
    ELSE 100

\* handleMouseDown(column, e) of the table view: the drag of the handle of
\* a column header starts
handleMouseDown(column, clientX) ==
    /\ TableMounted
    /\ resizingRef = NoRef
    /\ resizingRef' = [column |-> column, startX |-> clientX,
                       startWidth |-> WidthOf(column)]
    /\ UNCHANGED <<editVars, formVars, filterVars, hookVars, dbVars, tableVars,
                   codecVars, layoutVars, modalVars>>

MouseMoveWidth_Unclamped(ref, clientX) == ref.startWidth + (clientX - ref.startX)

\* the newWidth of handleMouseMove: Math.max(30, startWidth + delta)
MouseMoveWidth(ref, clientX) == Max(30, ref.startWidth + (clientX - ref.startX))

\* handleMouseMove(e), the listener of the document while a drag is under
\* way
handleMouseMove(clientX) ==
    /\ resizingRef # NoRef
    /\ MouseMoveWidth(resizingRef, clientX) <= MaxWidth
    /\ setColumnWidth(resizingRef.column, MouseMoveWidth(resizingRef, clientX))

\* handleMouseUp(): the drag ends
handleMouseUp ==
    /\ resizingRef # NoRef
    /\ resizingRef' = NoRef
    /\ UNCHANGED <<editVars, formVars, filterVars, hookVars, dbVars, tableVars,
                   codecVars, layoutVars, modalVars>>

----------------------------------------------------------------------------
(* Initial states                                                          *)

\* no codec call is under way
CodecIdle ==
    /\ codecPc = "idle"
    /\ linkIn = DemoLink(<<>>, <<>>)
    /\ rawIn = <<>>
    /\ linkOut = DemoLink(<<>>, <<>>)
    /\ rawOut = <<>>

\* the page has mounted: the hook's effect has called fetchData
HookInit ==
    /\ opportunities = <<>>
    /\ companies = <<>>
    /\ loading = TRUE
    /\ error = NoError
    /\ fetches = <<NewFetch(companyMode, selectedCompanyIds, opportunityMode,
                            selectedOpportunityIds)>>
    /\ edits = <<>>
    /\ lastPersist = "none"

\* the filter store as created
FilterDefault ==
    /\ companyMode = "all"
    /\ selectedCompanyIds = <<>>
    /\ opportunityMode = "all"
    /\ selectedOpportunityIds = <<>>

\* the filter store as restored from the state persisted by an earlier
\* session
FilterRestored ==
    /\ companyMode \in Modes
    /\ selectedCompanyIds \in Selections(CompanyIds)
    /\ opportunityMode \in Modes
    /\ selectedOpportunityIds \in Selections(OppIds)

\* the sidebar flag and the column widths as created
LayoutDefault ==
    /\ sidebarCollapsed = FALSE
    /\ columnWidths = DEFAULT_COLUMN_WIDTHS

\* the sidebar flag and the column widths as restored from the state
\* persisted by an earlier session
LayoutRestored ==
    /\ sidebarCollapsed \in BOOLEAN
    /\ columnWidths \in {DEFAULT_COLUMN_WIDTHS,
                          [DEFAULT_COLUMN_WIDTHS EXCEPT !["name"] = 60]}

\* the table view and the create modal as mounted, the modal closed
ViewIdle ==
    /\ editingId = Null
    /\ editingField = Null
    /\ tempValue = NoTemp
    /\ resizingRef = NoRef
    /\ isModalOpen = FALSE
    /\ formData = ""
    /\ saving = FALSE
    /\ saves = <<>>

\* no modal is open and the attachments of the store are left alone
ModalClosed ==
    /\ blobs = {}
    /\ attRows = {}
    /\ attachments = <<>>
    /\ uploading = FALSE
    /\ detailLoading = FALSE
    /\ requests = <<>>
    /\ clock = 1

CompanyRows(ids) == {[id |-> c, name |-> CompanyName(c)] : c \in ids}

\* the store of the table page: two opportunities of two companies, and
\* the Hyper-Reach company an earlier fetch has inserted
AppInit ==
    /\ FilterDefault
    /\ dbOpps = {OppRow("o1", 1, 0, "planned"), OppRow("o2", 2, 1, "planned")}
    /\ dbCompanies = CompanyRows(CompanyIds \cup {3})
    /\ HookInit
    /\ LayoutDefault
    /\ ModalClosed
    /\ ViewIdle

----------------------------------------------------------------------------
(* Codec inputs                                                            *)

Strs(chars, n) == UNION {[1..k -> chars] : k \in 0..n}

\* labels, plain urls and stored strings: letters, white space and the pipe
PlainStrs == Strs({"a", " ", "|"}, MaxLen)

\* web urls: https:// host, with or without a path
WebUrls ==
    {Https \o host \o path :
        host \in Strs({"w", ".", "a"}, MaxHost), path \in {<<>>, <<"/", "p">>}}

LinkInputs ==
    {DemoLink(l, u) : l \in PlainStrs, u \in PlainStrs}
        \cup {DemoLink(l, u) : l \in {<<>>, <<" ">>, <<"a">>}, u \in WebUrls}

appVars ==
    <<filterVars, hookVars, dbVars, tableVars, layoutVars, modalVars, viewVars>>

CodecInit ==
    /\ codecPc = "input"
    /\ \/ linkIn \in LinkInputs /\ rawIn = <<>>
       \/ linkIn = DemoLink(<<>>, <<>>) /\ rawIn \in PlainStrs
    /\ linkOut = DemoLink(<<>>, <<>>)
    /\ rawOut = <<>>
    /\ AppInit

\* parseDemoLink(rawIn)
Parse ==
    /\ codecPc = "input"
    /\ linkOut' = parseDemoLink(rawIn)
    /\ codecPc' = "parsed"
    /\ UNCHANGED <<linkIn, rawIn, rawOut, appVars>>

\* serializeDemoLink(linkIn)
Serialize ==
    /\ codecPc = "input"
    /\ rawOut' = serializeDemoLink(linkIn)
    /\ codecPc' = "serialized"
    /\ UNCHANGED <<linkIn, rawIn, linkOut, appVars>>

\* parseDemoLink(serializeDemoLink(linkIn))
ParseSerialized ==
    /\ codecPc = "serialized"
    /\ linkOut' = parseDemoLink(rawOut)
    /\ codecPc' = "reparsed"
    /\ UNCHANGED <<linkIn, rawIn, rawOut, appVars>>

\* serializeDemoLink(parseDemoLink(rawIn))
SerializeParsed ==
    /\ codecPc = "parsed"
    /\ rawOut' = serializeDemoLink(linkOut)
    /\ codecPc' = "reserialized"
    /\ UNCHANGED <<linkIn, rawIn, linkOut, appVars>>

\* getDemoLinkDisplay(linkIn)
Display ==
    /\ codecPc = "input"
    /\ rawOut' = getDemoLinkDisplay(linkIn)
    /\ codecPc' = "displayed"
    /\ UNCHANGED <<linkIn, rawIn, linkOut, appVars>>

CodecNext ==
    \/ Parse
    \/ Serialize
    \/ ParseSerialized
    \/ SerializeParsed
    \/ Display

SpecCodec == CodecInit /\ [][CodecNext]_vars

----------------------------------------------------------------------------
(* The page with the table: fetches, inline edits and their persists       *)

Outcomes == {"ok", "error"}

Init == CodecIdle /\ AppInit

\* the companies table holds Hyper-Reach throughout, so no fetch inserts it
Next ==
    \/ \E i \in 1..MaxFetches, outcome \in Outcomes :
           i \in DOMAIN fetches /\ CompaniesResponse(i, outcome)
    \/ \E i \in 1..MaxFetches, outcome \in Outcomes :
           i \in DOMAIN fetches /\ OpportunitiesResponse(i, outcome)
    \/ Refetch
    \/ \E id \in OppIds, field \in EditableFields :
           \E value \in FieldValues(field) : updateField(id, field, value)
    \/ TransitionEnd
    \/ \E i \in 1..MaxEdits, outcome \in Outcomes : PersistSettles(i, outcome)

Spec == Init /\ [][Next]_vars

----------------------------------------------------------------------------
(* The rows of the table: the company select and the demo links popover    *)

RowNext ==
    \/ \E i \in 1..MaxFetches, outcome \in Outcomes :
           i \in DOMAIN fetches /\ CompaniesResponse(i, outcome)
    \/ \E i \in 1..MaxFetches, outcome \in Outcomes :
           i \in DOMAIN fetches /\ OpportunitiesResponse(i, outcome)
    \/ \E id \in OppIds, value \in CompanyIds : selectCompany(id, value)
    \/ \E id \in OppIds, newLink \in Links : addDemoLink(id, newLink)
    \/ \E id \in OppIds, i \in 1..MaxLinks : removeDemoLink(id, i)
    \/ TransitionEnd
    \/ \E i \in 1..MaxEdits, outcome \in Outcomes : PersistSettles(i, outcome)

SpecRow == Init /\ [][RowNext]_vars

----------------------------------------------------------------------------
(* The page under a filter restored from an earlier session, over a fresh  *)
(* companies table                                                         *)

Stores ==
    {{},
     {OppRow("o1", 2, 0, "planned")},
     {OppRow("o1", 1, 0, "planned"), OppRow("o2", 1, 0, "planned")},
     {OppRow("o1", 1, 1, "planned"), OppRow("o2", 2, 0, "planned")}}

FilterInit ==
    /\ CodecIdle
    /\ FilterRestored
    /\ dbOpps \in Stores
    /\ dbCompanies = CompanyRows(CompanyIds)
    /\ HookInit
    /\ LayoutDefault
    /\ ModalClosed
    /\ ViewIdle

FilterNext ==
    \/ \E i \in 1..MaxFetches, outcome \in Outcomes :
           i \in DOMAIN fetches /\ CompaniesResponse(i, outcome)
    \/ \E i \in 1..MaxFetches, outcome \in Outcomes :
           i \in DOMAIN fetches /\ InsertResponse(i, outcome)
    \/ \E i \in 1..MaxFetches, outcome \in Outcomes :
           i \in DOMAIN fetches /\ RefreshResponse(i, outcome)
    \/ \E i \in 1..MaxFetches, outcome \in Outcomes :
           i \in DOMAIN fetches /\ OpportunitiesResponse(i, outcome)
    \/ Refetch

SpecFilter == FilterInit /\ [][FilterNext]_vars

----------------------------------------------------------------------------
(* One of the two modals open on an opportunity that has one attachment;   *)
(* each upload reads a later time than the upload before it                *)

\* the modal is mounted and has fetched the attachment uploaded at time 1
ModalOpen(modal) ==
    /\ blobs = {1}
    /\ attRows = {Attachment(<<1, 0>>, 1)}
    /\ attachments = [m \in {modal} |-> <<Attachment(<<1, 0>>, 1)>>]
    /\ uploading = FALSE
    /\ detailLoading = FALSE
    /\ requests = <<>>
    /\ clock = 1

ModalInit ==
    /\ CodecIdle
    /\ FilterDefault
    /\ LayoutDefault
    /\ dbOpps = {OppRow("o1", 1, 0, "planned"), OppRow("o2", 2, 1, "planned")}
    /\ dbCompanies = CompanyRows(CompanyIds \cup {3})
    /\ HookInit
    /\ \E modal \in Modals : ModalOpen(modal)
    /\ ViewIdle

ModalNext ==
    \/ handleFileUpload(clock + 1)
    \/ \E i \in 1..MaxRequests, outcome \in Outcomes :
           i \in DOMAIN requests /\ BlobWriteResponse(i, outcome)
    \/ \E i \in 1..MaxRequests, outcome \in Outcomes :
           i \in DOMAIN requests /\ MetadataInsertResponse(i, outcome)
    \/ \E modal \in Modals, k \in 1..MaxClock :
           handleDeleteAttachment(modal, k)
    \/ \E i \in 1..MaxRequests, outcome \in Outcomes :
           i \in DOMAIN requests /\ BlobRemoveResponse(i, outcome)
    \/ \E i \in 1..MaxRequests, outcome \in Outcomes :
           i \in DOMAIN requests /\ MetadataDeleteResponse(i, outcome)
    \/ \E i \in 1..MaxRequests, outcome \in Outcomes :
           i \in DOMAIN requests /\ AttachmentsResponse(i, outcome)

SpecModal == ModalInit /\ [][ModalNext]_vars

----------------------------------------------------------------------------
(* The filter store, restored from an earlier session, under the actions   *)
(* of the sidebar and of the table's column handles                        *)

StoreInit ==
    /\ CodecIdle
    /\ FilterRestored
    /\ LayoutRestored
    /\ dbOpps = {OppRow("o1", 1, 0, "planned"), OppRow("o2", 2, 1, "planned")}
    /\ dbCompanies = CompanyRows(CompanyIds)
    /\ HookInit
    /\ ModalClosed
    /\ ViewIdle

\* the ids of the All button of a filter, in the order of the sidebar's
\* list, and of its None button
AllCompanies == <<1, 2>>

AllOpportunities == <<"o1", "o2">>

StoreNext ==
    \/ \E mode \in Modes : setCompanyMode(mode)
    \/ \E mode \in Modes : setOpportunityMode(mode)
    \/ \E id \in CompanyIds : toggleCompany(id)
    \/ \E id \in OppIds : toggleOpportunity(id)
    \/ \E ids \in {AllCompanies, <<>>} : setSelectedCompanies(ids)
    \/ \E ids \in {AllOpportunities, <<>>} : setSelectedOpportunities(ids)
    \/ clearFilters
    \/ toggleSidebar
    \/ \E collapsed \in BOOLEAN : setSidebarCollapsed(collapsed)
    \/ \E column \in Columns, width \in Widths : setColumnWidth(column, width)
    \/ resetColumnWidths

SpecStore == StoreInit /\ [][StoreNext]_vars

----------------------------------------------------------------------------
(* The page under changes of the company filter, change notifications and  *)
(* manual refreshes, whose fetches overlap                                 *)

OverlapNext ==
    \/ \E i \in 1..MaxFetches, outcome \in Outcomes :
           i \in DOMAIN fetches /\ CompaniesResponse(i, outcome)
    \/ \E i \in 1..MaxFetches, outcome \in Outcomes :
           i \in DOMAIN fetches /\ OpportunitiesResponse(i, outcome)
    \/ Refetch
    \/ \E mode \in Modes : setCompanyMode(mode)
    \/ \E id \in CompanyIds : toggleCompany(id)

SpecOverlap == Init /\ [][OverlapNext]_vars

----------------------------------------------------------------------------
(* Claims about the codec                                                  *)

HasPipe(s) == \E k \in 1..Len(s) : s[k] = "|"

\* a label is present when it is non-empty after trimming
LabelPresent(label) == \E k \in 1..Len(label) : label[k] # " "

\* C1 as stated: for every demo link whose label is non-empty after
\* trimming and has no pipe, parsing the serialized link gives the link
\* back, for every url, the empty url included.
C1_RoundTripEveryUrl ==
    (codecPc = "reparsed" /\ LabelPresent(linkIn.label) /\ ~HasPipe(linkIn.label))
        => linkOut = linkIn

\* C1 as amended: for every demo link whose label is non-empty after
\* trimming and has no pipe and whose url is not empty, parsing the
\* serialized link gives the link back, also when the url holds pipes.
C1_RoundTripNonEmptyUrl ==
    (/\ codecPc = "reparsed"
     /\ LabelPresent(linkIn.label)
     /\ ~HasPipe(linkIn.label)
     /\ linkIn.url # <<>>)
        => linkOut = linkIn

C1_Witness ==
    /\ codecPc = "reparsed"
    /\ linkIn = DemoLink(<<" ", "a">>, <<"|", "a", "|">>)
    /\ linkOut = linkIn

\* C2: parse splits at the first pipe only, when that pipe is neither the
\* first nor the last character; in every other case the label is empty and
\* the url is the whole input.
C2_ParseSplitsAtFirstPipe ==
    codecPc = "parsed" =>
        LET pipes == {k \in 1..Len(rawIn) : rawIn[k] = "|"}
        IN  IF \E i \in pipes :
                   (\A j \in pipes : i <= j) /\ 1 < i /\ i < Len(rawIn)
            THEN /\ ~HasPipe(linkOut.label)
                 /\ linkOut.label # <<>>
                 /\ linkOut.url # <<>>
                 /\ linkOut.label \o <<"|">> \o linkOut.url = rawIn
            ELSE linkOut = DemoLink(<<>>, rawIn)

C2_Witness ==
    /\ codecPc = "parsed"
    /\ rawIn = <<"a", "|", "|">>
    /\ linkOut = DemoLink(<<"a">>, <<"|">>)

\* C3: serialize gives label|url, the label untrimmed, when the label is
\* non-empty after trimming, and the url alone otherwise.
C3_SerializeForm ==
    codecPc = "serialized" =>
        rawOut = IF LabelPresent(linkIn.label)
                 THEN linkIn.label \o <<"|">> \o linkIn.url
                 ELSE linkIn.url

C3_Witness ==
    /\ codecPc = "serialized"
    /\ linkIn.label = <<" ">>
    /\ linkIn.url # <<>>
    /\ rawOut = linkIn.url

\* C4: with no label and a url that parses, display gives the hostname with
\* a leading www. stripped and nothing else changed.
C4_DisplayStripsLeadingWww ==
    (codecPc = "displayed" /\ ~LabelPresent(linkIn.label) /\ NewURL(linkIn.url).ok)
        => LET hostname == NewURL(linkIn.url).hostname
           IN  rawOut = IF MatchesAt(hostname, Www, 0)
                        THEN SubSeq(hostname, Len(Www) + 1, Len(hostname))
                        ELSE hostname

\* C5: display gives the label whenever a label is present, and the raw url
\* unchanged when there is no label and the url does not parse.
C5_DisplayLabelOrRawUrl ==
    codecPc = "displayed" =>
        /\ LabelPresent(linkIn.label) => rawOut = linkIn.label
        /\ (~LabelPresent(linkIn.label) /\ ~NewURL(linkIn.url).ok)
               => rawOut = linkIn.url

C5_Witness ==
    /\ codecPc = "displayed"
    /\ linkIn.label = <<" ">>
    /\ linkIn.url = <<"a", " ", "a">>
    /\ rawOut = linkIn.url

----------------------------------------------------------------------------
(* Claims about the fetch under the filters                                *)

\* the opportunities query of fetch i answers with rows in this step
FetchedBy(i) == i \in DOMAIN fetches /\ OpportunitiesResponse(i, "ok")

\* C6: a fetch whose company filter is in select mode with no id selected
\* yields no opportunity, whatever the store holds.
C6_SelectNothingYieldsNothing ==
    [][\A i \in 1..MaxFetches :
          (/\ FetchedBy(i)
           /\ fetches[i].companyMode = "select"
           /\ fetches[i].selectedCompanyIds = <<>>)
              => opportunities' = <<>>]_vars

\* C7: the list a fetch yields does not depend on the selected ids of a
\* dimension whose mode is all: the same fetch with any other selection in
\* that dimension yields the same list from the same store.
C7_AllModeIgnoresSelection ==
    [][\A i \in 1..MaxFetches :
          FetchedBy(i) =>
              /\ fetches[i].companyMode = "all" =>
                     \A ids \in Selections(CompanyIds) :
                         opportunities' = OpportunitiesQuery(dbOpps,
                             [fetches[i] EXCEPT !.selectedCompanyIds = ids])
              /\ fetches[i].opportunityMode = "all" =>
                     \A ids \in Selections(OppIds) :
                         opportunities' = OpportunitiesQuery(dbOpps,
                             [fetches[i] EXCEPT !.selectedOpportunityIds = ids])]_vars

C7_Witness ==
    /\ TableMounted
    /\ fetches = <<>>
    /\ companyMode = "all"
    /\ selectedCompanyIds = <<1>>
    /\ opportunityMode = "select"
    /\ selectedOpportunityIds = <<"o2", "o1">>
    /\ \E k \in DOMAIN opportunities : opportunities[k].company_id = 2

----------------------------------------------------------------------------
(* Claims about the inline edit                                            *)

\* the row of the record id in a list
RowOf(list, id) == list[CHOOSE k \in DOMAIN list : list[k].id = id]

Shows(list, id) == \E k \in DOMAIN list : list[k].id = id

\* C8: as soon as updateField(id, field, value) is invoked, its persist
\* request still outstanding, the rendered list shows the record id with
\* the value in the field, and every other record and every other field of
\* that record as the list showed them before.
C8_EditShownAtOnce ==
    [][\A id \in OppIds, field \in EditableFields :
          \A value \in FieldValues(field) :
              updateField(id, field, value) =>
                  /\ edits'[Len(edits')] =
                         [id |-> id, field |-> field, value |-> value,
                          optimistic |-> TRUE]
                  /\ Len(optimisticOpportunities') = Len(optimisticOpportunities)
                  /\ \A k \in DOMAIN optimisticOpportunities :
                         LET before == optimisticOpportunities[k]
                             after  == optimisticOpportunities'[k]
                         IN  IF before.id = id
                             THEN /\ after[field] = value
                                  /\ DOMAIN after = DOMAIN before
                                  /\ \A g \in DOMAIN before \ {field} :
                                         after[g] = before[g]
                             ELSE after = before]_vars

C8_Witness ==
    /\ TableMounted
    /\ Len(opportunities) = 2
    /\ edits = <<[id |-> "o2", field |-> "status", value |-> "done",
                  optimistic |-> TRUE]>>
    /\ RowOf(opportunities, "o2").status = "planned"
    /\ RowOf(optimisticOpportunities, "o2").status = "done"
    /\ RowOf(optimisticOpportunities, "o1") = RowOf(opportunities, "o1")

\* C9: whenever the persist request of an inline edit settles, on success
\* and on failure alike, updateField ends having called onRefresh: a new
\* fetch is under way.
C9_RefetchAfterEverySettle ==
    [][Len(edits') < Len(edits) =>
          /\ Len(fetches') = Len(fetches) + 1
          /\ fetches'[Len(fetches')].pc = "companies"
          /\ loading']_vars

C9_Witness ==
    /\ lastPersist = "error"
    /\ edits = <<>>
    /\ loading
    /\ Len(fetches) = 1
    /\ fetches[1].pc = "companies"

\* C10: when an edit of a record and field is issued while the persist of
\* an earlier edit of the same record and field is outstanding, the
\* rendered value of the field is the value of the later edit, and the list
\* still renders each record once.
C10_LastWriteWins ==
    [][\A id \in OppIds, field \in EditableFields :
          \A value \in FieldValues(field) :
              (/\ updateField(id, field, value)
               /\ \E j \in DOMAIN edits :
                      edits[j].id = id /\ edits[j].field = field)
                  => /\ RowOf(optimisticOpportunities', id)[field] = value
                     /\ Len(optimisticOpportunities') = Len(opportunities')
                     /\ \A k \in DOMAIN opportunities' :
                            optimisticOpportunities'[k].id = opportunities'[k].id]_vars

C10_Witness ==
    /\ TableMounted
    /\ Len(edits) = 2
    /\ edits[1].id = "o1" /\ edits[2].id = "o1"
    /\ edits[1].optimistic /\ edits[2].optimistic
    /\ edits[1].value = "done" /\ edits[2].value = "planned"
    /\ RowOf(opportunities, "o1").status = "planned"
    /\ RowOf(optimisticOpportunities, "o1").status = "planned"

----------------------------------------------------------------------------
(* Claims about attachments                                                *)

\* request i is an upload suspended at the given await
UploadAt(i, pc) ==
    i \in DOMAIN requests /\ requests[i].kind = "upload" /\ requests[i].pc = pc

\* request i is a delete suspended at the given await
DeleteAt(i, pc) ==
    i \in DOMAIN requests /\ requests[i].kind = "delete" /\ requests[i].pc = pc

\* the ids of the attachments of a list
Ids(list) == {list[k].id : k \in DOMAIN list}

\* C12: an upload writes the blob before the metadata row: every step that
\* inserts a metadata row is the step of an upload that has passed its
\* blob write, for the path of that write; and when the blob write fails
\* the upload ends there, no blob is written and no row is inserted.
C12_BlobBeforeMetadata ==
    [][/\ \A r \in attRows' \ attRows :
              \E i \in 1..MaxRequests :
                  UploadAt(i, "metadata") /\ requests[i].file_path = r.file_path
       /\ \A i \in 1..MaxRequests :
              (UploadAt(i, "blob") /\ BlobWriteResponse(i, "error")) =>
                  /\ attRows' = attRows
                  /\ blobs' = blobs
                  /\ \A k \in DOMAIN requests' : requests'[k].kind # "upload"]_vars

C12_Witness ==
    /\ Attachment(<<2, 0>>, 2) \in attRows
    /\ 2 \in blobs
    /\ ~uploading
    /\ \E i \in DOMAIN requests :
           requests[i].kind = "fetch" /\ requests[i].modal = "edit"

\* C13: when the metadata insert fails after the blob was written, the
\* upload issues no delete of the blob: the blob stays in the store and the
\* upload has given it no row, no fetch of the attachment list is started
\* and the list is left as it is, and uploading is false again.
C13_OrphanBlobOnFailedInsert ==
    [][\A i \in 1..MaxRequests :
          (UploadAt(i, "metadata") /\ MetadataInsertResponse(i, "error")) =>
              /\ blobs' = blobs
              /\ attRows' = attRows
              /\ attachments' = attachments
              /\ requests' = RemoveAt(requests, i)
              /\ uploading' = FALSE]_vars

C13_Witness ==
    /\ 2 \in blobs
    /\ \A r \in attRows : r.file_path # 2
    /\ ~uploading
    /\ requests = <<>>
    /\ attachments = [m \in {"edit"} |-> <<Attachment(<<1, 0>>, 1)>>]

\* C14: a deletion issues the blob removal first and the deletion of the
\* metadata row after it, as two calls: the answer to the blob removal,
\* whatever it is, leaves the rows alone and makes the handler issue the
\* row deletion, and the answer to the row deletion leaves the blobs alone.
C14_DeleteIsTwoIndependentCalls ==
    [][/\ \A modal \in Modals, k \in 1..MaxClock :
              handleDeleteAttachment(modal, k) =>
                  requests'[Len(requests')].pc = "blob"
       /\ \A i \in 1..MaxRequests, outcome \in Outcomes :
              (DeleteAt(i, "blob") /\ BlobRemoveResponse(i, outcome)) =>
                  /\ attRows' = attRows
                  /\ i \in DOMAIN requests'
                  /\ requests'[i] = [requests[i] EXCEPT !.pc = "metadata"]
                  /\ outcome = "error" => blobs' = blobs
       /\ \A i \in 1..MaxRequests, outcome \in Outcomes :
              (DeleteAt(i, "metadata") /\ MetadataDeleteResponse(i, outcome)) =>
                  blobs' = blobs]_vars

\* the blob of the first attachment is in the store and no row references
\* it: its removal failed and the deletion of its row went through
C14_Witness ==
    /\ 1 \in blobs
    /\ \A r \in attRows : r.file_path # 1
    /\ requests = <<>>

----------------------------------------------------------------------------
(* Claims about the rows of the table                                      *)

\* the values of demo_links the model reaches
LinkLists == UNION {[1..n -> Links] : n \in 0..MaxLinks}

\* C16: no change of an opportunity's demo_links is issued through the
\* table view's optimistic updateField.
C16_DemoLinksNotThroughUpdateField ==
    [][\A id \in OppIds, value \in LinkLists :
          ~updateField(id, "demo_links", value)]_vars

\* C17: once the update requests of the writes that changed a company have
\* settled, with or without an error, the company_id and the company name
\* of every stored opportunity refer to the same company.
C17_CompanyInSync ==
    edits = <<>> =>
        \A r \in dbOpps : r.company = CompanyName(r.company_id)

----------------------------------------------------------------------------
(* Claims about the fetches of the page                                    *)

\* the page renders the error banner, with its Retry button, in place of
\* the table
ErrorBanner == ~loading /\ error # NoError

\* C18: when a query of a fetch fails, the hook ends with error set to a
\* message and loading false, and the page renders the error banner and
\* not the table; Retry on the banner starts a new fetch, which clears the
\* error before its first query.
C18_FetchErrorBannerAndRetry ==
    [][/\ \A i \in 1..MaxFetches :
              (/\ i \in DOMAIN fetches
               /\ \/ CompaniesResponse(i, "error")
                  \/ OpportunitiesResponse(i, "error"))
                  => /\ error' = FetchFailed
                     /\ ~loading'
                     /\ ErrorBanner'
                     /\ ~TableMounted'
       /\ (ErrorBanner /\ Refetch) =>
              /\ error' = NoError
              /\ loading'
              /\ Len(fetches') = Len(fetches) + 1
              /\ fetches'[Len(fetches')].pc = "companies"]_vars

\* the opportunities query of the first fetch failed and Retry was pressed
C18_Witness ==
    /\ opportunities = <<>>
    /\ companies # <<>>
    /\ error = NoError
    /\ loading
    /\ Len(fetches) = 1
    /\ fetches[1].pc = "companies"
    /\ lastPersist = "none"

----------------------------------------------------------------------------
(* Claims about the filter store                                           *)

\* an operation of the company dimension is taken in this step
CompanyOp ==
    \/ \E mode \in Modes : setCompanyMode(mode)
    \/ \E id \in CompanyIds : toggleCompany(id)
    \/ \E ids \in {AllCompanies, <<>>} : setSelectedCompanies(ids)

\* an operation of the opportunity dimension is taken in this step
OpportunityOp ==
    \/ \E mode \in Modes : setOpportunityMode(mode)
    \/ \E id \in OppIds : toggleOpportunity(id)
    \/ \E ids \in {AllOpportunities, <<>>} : setSelectedOpportunities(ids)

\* C19: the operations of the company dimension (mode change, toggle,
\* select all, clear all) leave the mode and the selected ids of the
\* opportunity dimension as they are, and the other way round, and none of
\* them changes the sidebar flag or the column widths; a toggle adds an id
\* that is not selected and removes one that is.
C19_DimensionsIndependent ==
    [][/\ CompanyOp =>
              UNCHANGED <<opportunityMode, selectedOpportunityIds,
                          sidebarCollapsed, columnWidths>>
       /\ OpportunityOp =>
              UNCHANGED <<companyMode, selectedCompanyIds,
                          sidebarCollapsed, columnWidths>>
       /\ \A id \in CompanyIds :
              toggleCompany(id) =>
                  /\ Includes(selectedCompanyIds', id) = ~Includes(selectedCompanyIds, id)
                  /\ Range(selectedCompanyIds') \ {id} = Range(selectedCompanyIds) \ {id}
       /\ \A id \in OppIds :
              toggleOpportunity(id) =>
                  /\ Includes(selectedOpportunityIds', id) =
                         ~Includes(selectedOpportunityIds, id)
                  /\ Range(selectedOpportunityIds') \ {id} =
                         Range(selectedOpportunityIds) \ {id}]_vars

\* company 2 was toggled in, under a selection of opportunities, a
\* collapsed sidebar and a resized column, all left as they were
C19_Witness ==
    /\ Len(fetches) = 2
    /\ fetches[1].selectedCompanyIds = <<1>>
    /\ fetches[2].selectedCompanyIds = <<1, 2>>
    /\ selectedCompanyIds = <<1, 2>>
    /\ companyMode = "select"
    /\ opportunityMode = "select"
    /\ selectedOpportunityIds = <<"o2">>
    /\ fetches[1].selectedOpportunityIds = <<"o2">>
    /\ sidebarCollapsed
    /\ columnWidths # DEFAULT_COLUMN_WIDTHS

\* a fetch is started in this step: by a change notification or a manual
\* refresh, or by a change of the company filter
StartsFetch ==
    \/ Refetch
    \/ \E mode \in Modes : setCompanyMode(mode)
    \/ \E id \in CompanyIds : toggleCompany(id)

\* C20: fetches in flight are neither cancelled nor deduplicated: every
\* change notification, filter change and manual refresh adds a fetch of
\* its own, on the filter of that moment, to the fetches in flight and
\* leaves those as they are; and every response is applied when it
\* arrives, whichever fetch it belongs to, so the list shown in the end is
\* that of the response that arrived last.
C20_OverlappingFetchesApplyInArrivalOrder ==
    [][/\ StartsFetch =>
              fetches' = Append(fetches,
                  NewFetch(companyMode', selectedCompanyIds', opportunityMode',
                           selectedOpportunityIds'))
       /\ \A i \in 1..MaxFetches :
              FetchedBy(i) =>
                  /\ opportunities' = OpportunitiesQuery(dbOpps, fetches[i])
                  /\ fetches' = RemoveAt(fetches, i)]_vars

\* the filter selects company 1 and its fetch has answered, yet the list
\* holds both opportunities: the response of the fetch issued under the
\* filter before arrived last
C20_Witness ==
    /\ fetches = <<>>
    /\ ~loading
    /\ error = NoError
    /\ companyMode = "select"
    /\ selectedCompanyIds = <<1>>
    /\ Len(opportunities) = 2
    /\ Len(OpportunitiesQuery(dbOpps,
               NewFetch(companyMode, selectedCompanyIds, opportunityMode,
                        selectedOpportunityIds))) = 1

----------------------------------------------------------------------------
(* The edit modal under uploads that may read the clock within one         *)
(* millisecond of the upload before them                                   *)

UploadInit ==
    /\ CodecIdle
    /\ FilterDefault
    /\ LayoutDefault
    /\ dbOpps = {OppRow("o1", 1, 0, "planned"), OppRow("o2", 2, 1, "planned")}
    /\ dbCompanies = CompanyRows(CompanyIds \cup {3})
    /\ HookInit
    /\ ModalOpen("edit")
    /\ ViewIdle

UploadNext ==
    \/ \E now \in 1..MaxClock : handleFileUpload(now)
    \/ \E i \in 1..MaxRequests, outcome \in Outcomes :
           i \in DOMAIN requests /\ BlobWriteResponse(i, outcome)
    \/ \E i \in 1..MaxRequests, outcome \in Outcomes :
           i \in DOMAIN requests /\ MetadataInsertResponse(i, outcome)
    \/ \E k \in 1..(MaxClock * MaxRows) : handleDeleteAttachment("edit", k)
    \/ \E i \in 1..MaxRequests, outcome \in Outcomes :
           i \in DOMAIN requests /\ BlobRemoveResponse(i, outcome)
    \/ \E i \in 1..MaxRequests, outcome \in Outcomes :
           i \in DOMAIN requests /\ MetadataDeleteResponse(i, outcome)
    \/ \E i \in 1..MaxRequests, outcome \in Outcomes :
           i \in DOMAIN requests /\ AttachmentsResponse(i, outcome)

SpecUpload == UploadInit /\ [][UploadNext]_vars

\* C21: any two uploads to the opportunity get distinct storage paths, also
\* when they read the same clock value: the path an upload computes is the
\* path of no blob of the bucket and of no row of the table.
C21_UploadPathsDistinct ==
    [][\A now \in 1..MaxClock :
          handleFileUpload(now) =>
              /\ filePath(now) \notin blobs
              /\ \A r \in attRows : r.file_path # filePath(now)]_vars

\* two rows of the table name one blob: the uploads that wrote them read
\* the same clock value, the blob of the first having been removed before
\* the second was written
C21_TwoRowsOneBlob ==
    \E r, q \in attRows : r.id # q.id /\ r.file_path = q.file_path

----------------------------------------------------------------------------
(* The page under inline text edits of the rows                            *)

EditNext ==
    \/ \E i \in 1..MaxFetches, outcome \in Outcomes :
           i \in DOMAIN fetches /\ CompaniesResponse(i, outcome)
    \/ \E i \in 1..MaxFetches, outcome \in Outcomes :
           i \in DOMAIN fetches /\ OpportunitiesResponse(i, outcome)
    \/ \E id \in OppIds, field \in TextFields, currentValue \in Texts \cup {"n"} :
           startEditing(id, field, currentValue)
    \/ \E id \in OppIds, text \in Texts : setTempValue(id, text)
    \/ \E id \in OppIds : cancelEditing(id)
    \/ \E id \in OppIds : saveEditing(id)
    \/ TransitionEnd
    \/ \E i \in 1..MaxEdits, outcome \in Outcomes : PersistSettles(i, outcome)

SpecEdit == Init /\ [][EditNext]_vars

\* the cells whose input is rendered
EditingCells ==
    {c \in OppIds \X TextFields : InputRendered(c[1]) /\ editingField = c[2]}

\* C22: Escape (cancelEditing) returns the row to the not-editing state,
\* editingId and editingField null and the text of its input empty, with
\* no optimistic update and no persist request; Enter (saveEditing) issues
\* exactly one updateField, for the record and the field in edit mode and
\* the text of the input; and at most one cell is in edit mode at a time.
C22_EnterSavesEscapeCancels ==
    /\ [](Cardinality(EditingCells) <= 1)
    /\ [][/\ \A id \in OppIds :
                 cancelEditing(id) =>
                     /\ editingId' = Null
                     /\ editingField' = Null
                     /\ tempValue'[id] = ""
                     /\ EditingCells' = {}
                     /\ edits' = edits
                     /\ dbOpps' = dbOpps
                     /\ optimisticOpportunities' = optimisticOpportunities
          /\ \A id \in OppIds :
                 saveEditing(id) =>
                     /\ Len(edits') = Len(edits) + 1
                     /\ SubSeq(edits', 1, Len(edits)) = edits
                     /\ edits'[Len(edits')] =
                            [id |-> editingId, field |-> editingField,
                             value |-> tempValue[id], optimistic |-> TRUE]
                     /\ dbOpps' = dbOpps]_vars

\* Enter has saved the text typed into the name of o1, whose persist is
\* outstanding, and Escape has cancelled an edit of the name of o2 since
C22_Witness ==
    /\ Len(edits) = 1
    /\ edits[1].id = "o1" /\ edits[1].field = "name" /\ edits[1].value = "m"
    /\ editingId = Null
    /\ editingField = Null
    /\ tempValue = [id \in OppIds |-> IF id = "o1" THEN "m" ELSE ""]
    /\ TableMounted

\* C23: when the persist of an updateField settles, editingId and
\* editingField are null afterwards whatever cell they named: an edit
\* opened on another cell in the meantime is closed with it.
C23_SettleClosesAnyEdit ==
    [][\A i \in 1..MaxEdits, outcome \in Outcomes :
          PersistSettles(i, outcome) =>
              /\ editingId' = Null
              /\ editingField' = Null
              /\ EditingCells' = {}]_vars

\* the persist of the edit of o1 is outstanding and the input of the name
\* of o2 is open, with a text typed into it
C23_Witness ==
    /\ Len(edits) = 1
    /\ edits[1].id = "o1" /\ edits[1].field = "name"
    /\ EditingCells = {<<"o2", "name">>}
    /\ tempValue["o2"] = "m"

----------------------------------------------------------------------------
(* Claims about the flags and the lists of the hook                        *)

\* C24: loading is true in every state in which at least one fetch is
\* outstanding, also when fetches overlap, and false once none is.
C24_LoadingIffFetchOutstanding ==
    loading <=> fetches # <<>>

\* C25: after any interleaving of fetches the companies table holds at most
\* one company named Hyper-Reach.
C25_OneHyperReach ==
    Cardinality({c \in dbCompanies : c.name = HyperReach}) <= 1

\* C26: a fetch that fails leaves the opportunities list as it was; when
\* its companies query fails the companies list is left as it was too, and
\* when its opportunities query fails the companies list has been replaced
\* before: the step that takes a fetch to its opportunities query sets the
\* list, and the failing answer leaves that list alone.
C26_FailedFetchKeepsLists ==
    [][\A i \in 1..MaxFetches :
          /\ (i \in DOMAIN fetches /\ CompaniesResponse(i, "error")) =>
                 /\ opportunities' = opportunities
                 /\ companies' = companies
          /\ (i \in DOMAIN fetches /\ OpportunitiesResponse(i, "error")) =>
                 /\ opportunities' = opportunities
                 /\ companies' = companies
          /\ (/\ i \in DOMAIN fetches
              /\ fetches[i].pc # "opportunities"
              /\ Len(fetches') = Len(fetches)
              /\ fetches'[i].pc = "opportunities") =>
                 /\ companies' \in {SelectCompanies(dbCompanies),
                                    fetches[i].finalCompanies}
                 /\ companies' # <<>>]_vars

\* the opportunities query of the page's fetches failed: the list is the
\* empty one the page started with, although the store holds opportunities
\* and the filter selects them all, and the companies are loaded
C26_Witness ==
    /\ error = FetchFailed
    /\ ~loading
    /\ fetches = <<>>
    /\ opportunities = <<>>
    /\ dbOpps # {}
    /\ companyMode = "all"
    /\ opportunityMode = "all"
    /\ \E k \in DOMAIN companies : companies[k].name = HyperReach

----------------------------------------------------------------------------
(* The page under the create modal                                         *)

FormNext ==
    \/ \E i \in 1..MaxFetches, outcome \in Outcomes :
           i \in DOMAIN fetches /\ CompaniesResponse(i, outcome)
    \/ \E i \in 1..MaxFetches, outcome \in Outcomes :
           i \in DOMAIN fetches /\ OpportunitiesResponse(i, outcome)
    \/ Refetch
    \/ handleCreateNew
    \/ \E name \in Texts \cup {""} : setFormData(name)
    \/ handleCloseModal
    \/ handleSave
    \/ \E i \in 1..MaxSaves, outcome \in Outcomes : SaveResponse(i, outcome)

SpecForm == Init /\ [][FormNext]_vars

\* C27: when the store answers the insert of the form's save with an error,
\* the form still calls onSave (a fetch starts) and onClose (the modal is
\* closed): nothing is stored, the form's data is gone and no error is
\* shown; and saving is false after the answer, whatever it is.
C27_RejectedSaveStillCloses ==
    [][\A i \in 1..MaxSaves :
          /\ SaveResponse(i, "error") =>
                 /\ dbOpps' = dbOpps
                 /\ fetches' = Append(fetches,
                        NewFetch(companyMode, selectedCompanyIds, opportunityMode,
                                 selectedOpportunityIds))
                 /\ isModalOpen' = FALSE
                 /\ formData' = ""
                 /\ error' = NoError
                 /\ ~ErrorBanner'
          /\ \A outcome \in Outcomes : SaveResponse(i, outcome) => ~saving']_vars

\* the store has rejected the insert of a save: the modal is closed, the
\* store holds the two opportunities it held, no banner is shown
C27_Witness ==
    /\ lastPersist = "error"
    /\ saves = <<>>
    /\ ~isModalOpen
    /\ ~saving
    /\ formData = ""
    /\ Cardinality(dbOpps) = 2
    /\ TableMounted

----------------------------------------------------------------------------
(* Claims about the selections and the column widths of the filter store   *)

\* no id is in the list twice
NoDuplicate(ids) == \A i, j \in DOMAIN ids : i # j => ids[i] # ids[j]

\* C28: under the toggles and the duplicate-free setSelected calls the
\* lists of selected ids hold no id twice, and a toggle is undone by the
\* toggle of the same id: after toggleCompany(id) or toggleOpportunity(id),
\* a second toggle of id gives the set of ids selected before the first.
C28_TogglesKeepSelectionsDuplicateFree ==
    /\ [](NoDuplicate(selectedCompanyIds) /\ NoDuplicate(selectedOpportunityIds))
    /\ [][/\ \A id \in CompanyIds :
                 toggleCompany(id) =>
                     /\ Includes(selectedCompanyIds', id)
                            # Includes(selectedCompanyIds, id)
                     /\ Range(Toggle(selectedCompanyIds', id))
                            = Range(selectedCompanyIds)
          /\ \A id \in OppIds :
                 toggleOpportunity(id) =>
                     /\ Includes(selectedOpportunityIds', id)
                            # Includes(selectedOpportunityIds, id)
                     /\ Range(Toggle(selectedOpportunityIds', id))
                            = Range(selectedOpportunityIds)]_vars

\* company 1 was toggled into the selection <<2>> the page was fetched
\* under
C28_Witness ==
    /\ Len(fetches) = 2
    /\ fetches[1].selectedCompanyIds = <<2>>
    /\ fetches[2].selectedCompanyIds = <<2, 1>>
    /\ selectedCompanyIds = <<2, 1>>
    /\ fetches[2].selectedOpportunityIds = fetches[1].selectedOpportunityIds
    /\ fetches[2].companyMode = fetches[1].companyMode

----------------------------------------------------------------------------
(* Claims about the codec: stored strings                                  *)

\* the text before the first pipe of s is white space, and not empty
BlankBeforePipe(s) ==
    \E k \in 2..Len(s) : s[k] = "|" /\ \A j \in 1..(k - 1) : s[j] = " "

\* C29: for every stored string whose text before its first pipe is not
\* white space only, serializing the parsed string gives the string back.
C29_StoredStringRoundTrip ==
    (codecPc = "reserialized" /\ ~BlankBeforePipe(rawIn)) => rawOut = rawIn

\* a string with a label and a url that holds a pipe comes back unchanged
C29_Witness ==
    /\ codecPc = "reserialized"
    /\ rawIn = <<"a", "|", "|">>
    /\ linkOut = DemoLink(<<"a">>, <<"|">>)
    /\ rawOut = rawIn

----------------------------------------------------------------------------
(* The page under drags of the column handle and calls of the store's      *)
(* width actions                                                           *)

ResizeNext ==
    \/ \E i \in 1..MaxFetches, outcome \in Outcomes :
           i \in DOMAIN fetches /\ CompaniesResponse(i, outcome)
    \/ \E i \in 1..MaxFetches, outcome \in Outcomes :
           i \in DOMAIN fetches /\ OpportunitiesResponse(i, outcome)
    \/ Refetch
    \/ \E column \in Columns, width \in Widths : setColumnWidth(column, width)
    \/ resetColumnWidths
    \/ \E column \in Columns, clientX \in Xs : handleMouseDown(column, clientX)
    \/ \E clientX \in Xs : handleMouseMove(clientX)
    \/ handleMouseUp

SpecResize == Init /\ [][ResizeNext]_vars

\* C30: after any sequence of setColumnWidth and resetColumnWidths calls
\* every stored width is at least 20, and every width a move of a dragged
\* column handle stores is at least 30.
C30_WidthsAtLeastMinimum ==
    /\ [](\A column \in Columns : columnWidths[column] >= 20)
    /\ [][\A clientX \in Xs :
              handleMouseMove(clientX) =>
                  /\ columnWidths'[resizingRef.column] >= 30
                  /\ \A column \in Columns \ {resizingRef.column} :
                         columnWidths'[column] = columnWidths[column]]_vars

\* a drag to the left of a column of width 60 is under way and has stopped
\* at the minimum
C30_Witness ==
    /\ resizingRef # NoRef
    /\ resizingRef.startWidth = 60
    /\ resizingRef.startX = 100
    /\ columnWidths["name"] = 30

====
